---- MODULE Spec2Model ----
(***************************************************************************)
(* Model of server/scripts/parse_document.py: one process run of the      *)
(* command-line adapter around the Docling document converter.            *)
(*                                                                         *)
(* A string is a sequence of characters.  A character is a one-letter     *)
(* TLA+ string; a fixed literal of the source (such as "File not found: ")*)
(* is carried as one element.  "u" stands for a character that came from  *)
(* an undecodable byte of the command line (a lone surrogate).            *)
(***************************************************************************)
EXTENDS Integers, Sequences, FiniteSets, TLC

\* ---------------------------------------------------------------- bounds
MaxPathLen == 3
MaxTextLen == 2
MaxPages == 2

\* ------------------------------------------------------ input alphabets
PathChars == {"a", "/", ".", "u"}
TextChars == {"a", "\n"}

StringsOver(S, n) == UNION {[1..k -> S] : k \in 0..n}

Paths == StringsOver(PathChars, MaxPathLen)
Texts == StringsOver(TextChars, MaxTextLen)

\* The command lines: no argument, one argument, one argument and an extra.
ArgLists == {<<>>} \cup {<<p>> : p \in Paths} \cup {<<p, <<"a">>>> : p \in Paths}

\* What the collaborator can hand back from convert(): a document with a
\* markdown export and an optional page collection.
Documents ==
    {d \in [markdown : Texts, hasPages : BOOLEAN, npages : 0..MaxPages] :
        ~d.hasPages => d.npages = 0}

\* Message texts an error can carry; str(e) of an error without arguments
\* is the empty string.
Messages == {<<>>, <<"a">>, <<"a", "\n">>}

\* What a call into the collaborator can raise.  Exception is the base of the
\* errors the handler names; KeyboardInterrupt and SystemExit derive from
\* BaseException only.
Raisable ==
    {[cls |-> "Exception", msg |-> m, code |-> 1] : m \in Messages}
    \cup {[cls |-> "KeyboardInterrupt", msg |-> <<>>, code |-> 130]}
    \cup {[cls |-> "SystemExit", msg |-> <<>>, code |-> c] : c \in {0, 2}}

ImportError == [cls |-> "ImportError", msg |-> <<"No module named 'docling'">>, code |-> 1]
OSError == [cls |-> "OSError", msg |-> <<"[Errno 36] File name too long">>, code |-> 1]

\* isinstance(e, Exception)
IsException(e) == e.cls \in {"Exception", "ImportError", "OSError"}

\* ------------------------------------------------------------- pathlib
RECURSIVE Split(_)
\* s.split("/")
Split(s) ==
    IF s = <<>> THEN << <<>> >>
    ELSE LET r == Split(Tail(s)) IN
         IF Head(s) = "/" THEN << <<>> >> \o r
         ELSE << <<Head(s)>> \o Head(r) >> \o Tail(r)

\* The parts pathlib keeps: empty components and "." are dropped.
Parts(s) == SelectSeq(Split(s), LAMBDA c : c # <<>> /\ c # <<".">>)

\* Path(s).name
PathName(s) == IF Parts(s) = <<>> THEN <<>> ELSE Parts(s)[Len(Parts(s))]

\* --------------------------------------------------------- json.dumps
JsonEscape(c) == IF c = "\n" THEN "\\n" ELSE c

JsonString(s) == <<"\"">> \o [i \in 1..Len(s) |-> JsonEscape(s[i])] \o <<"\"">>

\* json.dumps(obj, ensure_ascii=False), keys in insertion order.
JsonDumps(obj) ==
    IF DOMAIN obj = {"error"}
    THEN <<"{", "\"error\": ">> \o JsonString(obj.error) \o <<"}">>
    ELSE IF obj.success
    THEN <<"{", "\"success\": true", ", ", "\"text\": ">> \o JsonString(obj.text)
         \o <<", ", "\"filename\": ">> \o JsonString(obj.filename)
         \o <<", ", "\"pages\": ", ToString(obj.pages), "}">>
    ELSE <<"{", "\"success\": false", ", ", "\"error\": ">> \o JsonString(obj.error)
         \o <<", ", "\"filename\": ">> \o JsonString(obj.filename) \o <<"}">>

\* Whether the text stream of standard output can encode the line.
Encodable(line, strict) == ~strict \/ \A i \in 1..Len(line) : line[i] # "u"

\* Number of lines standard output holds.
LineCount(out) == Cardinality({i \in 1..Len(out) : out[i] = "\n"})

UsageError == [error |-> <<"Usage: parse_document.py <file_path>">>]

\* ---------------------------------------------------------------- state
VARIABLES
    pc,            \* position of the process
    argv,          \* the arguments after the script name
    onDisk,        \* the filesystem holds an entry at the argument's path
    statFails,     \* stat() of the path fails with an error exists() re-raises
    stdoutStrict,  \* standard output encodes with the strict error handler
    file_path,     \* parameter of parse_document
    calls,         \* number of calls of parse_document
    checked,       \* outcome of path.exists(): "no" (not run), "found", "missing", "raised"
    constructed,   \* number of DocumentConverter() calls
    convertCalls,  \* number of converter.convert() calls
    doc,           \* <<>> or <<result.document>>
    text,          \* <<>> or <<the markdown export>>
    raised,        \* <<>> or <<[at, err]>>: the error raised inside parse_document
    results,       \* the values parse_document returned, in order
    printCalls,    \* number of print() calls
    stdout,        \* what was written to standard output
    exitCode       \* -1 while running, then the exit status

vars == <<pc, argv, onDisk, statFails, stdoutStrict, file_path, calls, checked,
          constructed, convertCalls, doc, text, raised, results, printCalls,
          stdout, exitCode>>

env == <<argv, onDisk, statFails, stdoutStrict>>

\* Path(file_path).exists() when stat() does not fail: the current directory
\* and the root always exist.
PathExists(p) == Parts(p) = <<>> \/ onDisk

Init ==
    /\ pc = "main"
    /\ argv \in ArgLists
    /\ onDisk \in BOOLEAN
    /\ statFails \in BOOLEAN
    /\ stdoutStrict \in BOOLEAN
    /\ file_path = <<>>
    /\ calls = 0
    /\ checked = "no"
    /\ constructed = 0
    /\ convertCalls = 0
    /\ doc = <<>>
    /\ text = <<>>
    /\ raised = <<>>
    /\ results = <<>>
    /\ printCalls = 0
    /\ stdout = <<>>
    /\ exitCode = -1

\* path.exists() re-raises an OSError of stat() that is not one of the
\* "no such entry" kinds; the paths without parts are "." and "/".
ExistsRaises(p) == statFails /\ Parts(p) # <<>>

\* ------------------------------------------------- values parse_document returns
\* Slip: the pre-check failure carries a success flag.
NotFoundResult_Flagged(fp) == [success |-> FALSE, error |-> <<"File not found: ">> \o fp]

NotFoundResult(fp) == [error |-> <<"File not found: ">> \o fp]

\* Slip: the length is read without asking whether the attribute is there.
PageCount_NoDefault(d) == d.npages

PageCount(d) == IF d.hasPages THEN d.npages ELSE 1

SuccessEnvelope(fp, d, t) ==
    [success |-> TRUE, text |-> t, filename |-> PathName(fp), pages |-> PageCount(d)]

\* Slip: the fallback for the empty path is left out.
FailureEnvelope_NoFallback(e, fp) ==
    [success |-> FALSE, error |-> e.msg, filename |-> PathName(fp)]

\* Slip: the error is reported through its class name, not its string form.
FailureEnvelope_ClassName(e, fp) ==
    [success |-> FALSE, error |-> <<e.cls>>,
     filename |-> IF fp # <<>> THEN PathName(fp) ELSE <<"unknown">>]

FailureEnvelope(e, fp) ==
    [success |-> FALSE, error |-> e.msg,
     filename |-> IF fp # <<>> THEN PathName(fp) ELSE <<"unknown">>]

\* An error raised at step `at` inside the try block: the handler takes the
\* errors that are Exceptions, the others leave parse_document.
Raise(at, e) ==
    /\ raised' = <<[at |-> at, err |-> e]>>
    /\ pc' = IF IsException(e) THEN "except" ELSE "propagate"

\* ---------------------------------------------------------------- main
\* Slip: the usage branch ends with status 0.
MainUsage_ExitZero ==
    /\ pc = "main"
    /\ Len(argv) < 1
    /\ printCalls' = printCalls + 1
    /\ stdout' = stdout \o JsonDumps(UsageError) \o <<"\n">>
    /\ exitCode' = 0
    /\ pc' = "exited"
    /\ UNCHANGED <<env, file_path, calls, checked, constructed, convertCalls,
                   doc, text, raised, results>>

MainUsage ==
    /\ pc = "main"
    /\ Len(argv) < 1
    /\ printCalls' = printCalls + 1
    /\ stdout' = stdout \o JsonDumps(UsageError) \o <<"\n">>
    /\ exitCode' = 1
    /\ pc' = "exited"
    /\ UNCHANGED <<env, file_path, calls, checked, constructed, convertCalls,
                   doc, text, raised, results>>

MainCall ==
    /\ pc = "main"
    /\ Len(argv) >= 1
    /\ file_path' = argv[1]
    /\ calls' = calls + 1
    /\ pc' = "import"
    /\ UNCHANGED <<env, checked, constructed, convertCalls, doc, text, raised,
                   results, printCalls, stdout, exitCode>>

PrintResult ==
    /\ pc = "print"
    /\ printCalls' = printCalls + 1
    /\ LET line == JsonDumps(results[Len(results)]) \o <<"\n">> IN
       IF Encodable(line, stdoutStrict)
       THEN /\ stdout' = stdout \o line
            /\ exitCode' = 0
       ELSE /\ stdout' = stdout
            /\ exitCode' = 1
    /\ pc' = "exited"
    /\ UNCHANGED <<env, file_path, calls, checked, constructed, convertCalls,
                   doc, text, raised, results>>

\* An error the handler does not name leaves parse_document and main; the
\* interpreter ends the process without printing to standard output.
Propagate ==
    /\ pc = "propagate"
    /\ exitCode' = raised[1].err.code
    /\ pc' = "exited"
    /\ UNCHANGED <<env, file_path, calls, checked, constructed, convertCalls,
                   doc, text, raised, results, printCalls, stdout>>

\* ------------------------------------------------------ parse_document
ImportDocling ==
    /\ pc = "import"
    /\ \/ /\ pc' = "check"
          /\ UNCHANGED raised
       \/ Raise("import", ImportError)
    /\ UNCHANGED <<env, file_path, calls, checked, constructed, convertCalls,
                   doc, text, results, printCalls, stdout, exitCode>>

\* Slip: the missing path is noted but the converter is built all the same.
CheckExists_NoShortCircuit ==
    /\ pc = "check"
    /\ IF ExistsRaises(file_path)
       THEN /\ checked' = "raised"
            /\ Raise("exists", OSError)
       ELSE /\ checked' = IF PathExists(file_path) THEN "found" ELSE "missing"
            /\ pc' = "construct"
            /\ UNCHANGED raised
    /\ UNCHANGED <<env, file_path, calls, constructed, convertCalls, doc, text,
                   results, printCalls, stdout, exitCode>>

CheckExists ==
    /\ pc = "check"
    /\ IF ExistsRaises(file_path)
       THEN /\ checked' = "raised"
            /\ Raise("exists", OSError)
            /\ UNCHANGED results
       ELSE IF ~PathExists(file_path)
       THEN /\ checked' = "missing"
            /\ results' = Append(results, NotFoundResult(file_path))
            /\ pc' = "print"
            /\ UNCHANGED raised
       ELSE /\ checked' = "found"
            /\ pc' = "construct"
            /\ UNCHANGED <<raised, results>>
    /\ UNCHANGED <<env, file_path, calls, constructed, convertCalls, doc, text,
                   printCalls, stdout, exitCode>>

Construct ==
    /\ pc = "construct"
    /\ constructed' = constructed + 1
    /\ \/ /\ pc' = "convert"
          /\ UNCHANGED raised
       \/ \E e \in Raisable : Raise("construct", e)
    /\ UNCHANGED <<env, file_path, calls, checked, convertCalls, doc, text,
                   results, printCalls, stdout, exitCode>>

Convert ==
    /\ pc = "convert"
    /\ convertCalls' = convertCalls + 1
    /\ \/ \E d \in Documents :
             /\ doc' = <<d>>
             /\ pc' = "export"
             /\ UNCHANGED raised
       \/ /\ \E e \in Raisable : Raise("convert", e)
          /\ UNCHANGED doc
    /\ UNCHANGED <<env, file_path, calls, checked, constructed, text, results,
                   printCalls, stdout, exitCode>>

Export ==
    /\ pc = "export"
    /\ \/ /\ text' = <<doc[1].markdown>>
          /\ pc' = "envelope"
          /\ UNCHANGED raised
       \/ /\ \E e \in Raisable : Raise("export", e)
          /\ UNCHANGED text
    /\ UNCHANGED <<env, file_path, calls, checked, constructed, convertCalls,
                   doc, results, printCalls, stdout, exitCode>>

ReturnSuccess ==
    /\ pc = "envelope"
    /\ results' = Append(results, SuccessEnvelope(file_path, doc[1], text[1]))
    /\ pc' = "print"
    /\ UNCHANGED <<env, file_path, calls, checked, constructed, convertCalls,
                   doc, text, raised, printCalls, stdout, exitCode>>

HandleException ==
    /\ pc = "except"
    /\ results' = Append(results, FailureEnvelope(raised[1].err, file_path))
    /\ pc' = "print"
    /\ UNCHANGED <<env, file_path, calls, checked, constructed, convertCalls,
                   doc, text, raised, printCalls, stdout, exitCode>>

Next ==
    \/ MainUsage
    \/ MainCall
    \/ ImportDocling
    \/ CheckExists
    \/ Construct
    \/ Convert
    \/ Export
    \/ ReturnSuccess
    \/ HandleException
    \/ Propagate
    \/ PrintResult

Spec == Init /\ [][Next]_vars

\* ======================================================== properties
Exited == pc = "exited"

Supplied == Len(argv) >= 1

\* The steps of parse_document that call into the collaborator.
CollaboratorSteps == {"construct", "convert", "export"}

\* An error was raised by the collaborator inside parse_document.
CollaboratorRaised == raised # <<>> /\ raised[1].at \in CollaboratorSteps

\* The line print() writes for a value.
LineOf(r) == JsonDumps(r) \o <<"\n">>

IsSuccessShape(r) ==
    /\ DOMAIN r = {"success", "text", "filename", "pages"}
    /\ r.success = TRUE
    /\ r.pages \in Nat

IsFailureShape(r) ==
    /\ DOMAIN r = {"success", "error", "filename"}
    /\ r.success = FALSE

IsPreCheckShape(r) == DOMAIN r = {"error"}

\* ---------------------------------------------------------------- C1
\* C1 (as stated): a run with an argument whose path does not exist returns
\* exactly {error: "File not found: <path>"}, prints it and exits with 0,
\* whatever happens before the existence check.
C1_NotFoundAlways ==
    (Exited /\ Supplied /\ ~PathExists(argv[1])) =>
        /\ results = <<[error |-> <<"File not found: ">> \o argv[1]]>>
        /\ stdout = LineOf([error |-> <<"File not found: ">> \o argv[1]])
        /\ exitCode = 0

\* ---------------------------------------------------------------- C2
\* C2: with no argument main prints the usage error, exits with 1 and never
\* calls parse_document: no existence check, no converter, no conversion.
C2_UsageBranch ==
    (Exited /\ ~Supplied) =>
        /\ stdout = <<"{", "\"error\": ", "\"",
                      "Usage: parse_document.py <file_path>", "\"", "}", "\n">>
        /\ exitCode = 1
        /\ calls = 0
        /\ results = <<>>
        /\ checked = "no"
        /\ constructed = 0
        /\ convertCalls = 0

C2_Witness == Exited /\ argv = <<>> /\ printCalls = 1

\* ---------------------------------------------------------------- C3
\* C3 (as stated): whenever an argument is supplied the process ends with
\* exit code 0, on every path.
C3_ExitZeroAlways == (Exited /\ Supplied) => exitCode = 0

C6_SuccessEnvelope ==
    (pc \in {"print", "exited"} /\ checked = "found" /\ text # <<>>) =>
        results = <<[success |-> TRUE,
                     text |-> doc[1].markdown,
                     filename |-> PathName(file_path),
                     pages |-> IF doc[1].hasPages THEN doc[1].npages ELSE 1]>>

C6_Witness ==
    /\ Exited
    /\ text # <<>>
    /\ ~doc[1].hasPages
    /\ file_path = <<"/", "a">>
    /\ Len(results) = 1
    /\ stdout = LineOf(results[1])

\* ---------------------------------------------------------------- C7
\* C7 (as stated): every success envelope has pages >= 1 and a non-empty
\* text, also for a document whose page collection is empty.
C7_PagesAndTextPositive ==
    \A i \in 1..Len(results) :
        ("success" \in DOMAIN results[i] /\ results[i].success) =>
            /\ results[i].pages >= 1
            /\ Len(results[i].text) > 0

\* ---------------------------------------------------------------- C8
\* C8 (as stated): on every branch exactly one line is written to standard
\* output before the process ends, by exactly one write.
C8_ExactlyOneLine == Exited => (LineCount(stdout) = 1 /\ printCalls = 1)

C10_CheckBeforeDelegation ==
    /\ (calls > 0 /\ ~PathExists(file_path)) =>
          (constructed = 0 /\ convertCalls = 0)
    /\ (constructed > 0 \/ convertCalls > 0) =>
          (checked = "found" /\ PathExists(file_path))
    /\ convertCalls <= 1

C10_Witness == Exited /\ convertCalls = 1 /\ checked = "found" /\ onDisk

====
